---- MODULE Spec2Model ----
(***************************************************************************)
(* Model of src/src/lib.rs (crate ptr_info_lib): ptr_info, parse_line and  *)
(* determine_region_type.                                                  *)
(*                                                                         *)
(* Text is modelled by TLA+ strings, one character per position.  A usize  *)
(* is modelled by its base-16 digits, most significant first and without   *)
(* leading zeros (zero is the empty sequence), because a 64-bit value does *)
(* not fit the integers of the model checker; the width of usize is kept   *)
(* by UsizeHexDigits.  Option<T> is [some |-> FALSE] for None and          *)
(* [some |-> TRUE, val |-> v] for Some(v).                                 *)
(***************************************************************************)
EXTENDS Integers, Sequences, FiniteSets, TLC

VARIABLES
    address,      \* ptr_info: `address`, the pointer as usize
    file,         \* the lines `reader.lines()` will yield (Ok(text) or Err)
    pos,          \* how many items of `file` the first loop has consumed
    file_counts,  \* ptr_info: `file_counts`, HashMap<String, i32>
    lines,        \* ptr_info: `lines`, Vec<String>
    idx,          \* position of the second loop in `lines`
    pc,           \* where ptr_info is: "open", "read", "scan", "done", "failed"
    out,          \* the lines ptr_info printed after the pointer line (stdout)
    ptokens,      \* parse_line call: the fields the input line was built from
    pline,        \* parse_line call: the argument `line`
    pres,         \* parse_line call: the returned Option, once returned
    cperm,        \* determine_region_type call: `permissions`
    cpath,        \* determine_region_type call: `file_path`
    ckind         \* determine_region_type call: the returned &str, once returned

vars == <<address, file, pos, file_counts, lines, idx, pc, out,
          ptokens, pline, pres, cperm, cpath, ckind>>

resolverVars == <<address, file, pos, file_counts, lines, idx, pc, out>>
parseVars == <<ptokens, pline, pres>>
classifyVars == <<cperm, cpath, ckind>>

-----------------------------------------------------------------------------
(* Option<T> and Result<T, E>                                              *)

None == [some |-> FALSE]

Some(v) == [some |-> TRUE, val |-> v]

Ok(v) == [ok |-> TRUE, val |-> v]

Err == [ok |-> FALSE]

-----------------------------------------------------------------------------
(* Characters and strings                                                  *)

Char(s, i) == SubSeq(s, i, i)

\* The characters with the Unicode property White_Space are U+0009..U+000D,
\* U+0020, U+0085, U+00A0, U+1680, U+2000..U+200A, U+2028, U+2029, U+202F,
\* U+205F and U+3000.  Those from U+2000 on cannot be written in a string of
\* this module; the lines of the model are ASCII text.
VerticalTab == ""

NextLine == ""

NoBreakSpace == " "

OghamSpaceMark == " "

\* char::is_whitespace
is_whitespace(c) ==
    c \in {" ", "\t", "\n", "\f", "\r",
           VerticalTab, NextLine, NoBreakSpace, OghamSpaceMark}

\* str::split_whitespace: the maximal runs of non-white-space characters.
RECURSIVE SplitWsFrom(_, _, _, _)
SplitWsFrom(s, i, cur, acc) ==
    IF i > Len(s)
    THEN IF cur = "" THEN acc ELSE Append(acc, cur)
    ELSE IF is_whitespace(Char(s, i))
         THEN SplitWsFrom(s, i + 1, "", IF cur = "" THEN acc ELSE Append(acc, cur))
         ELSE SplitWsFrom(s, i + 1, cur \o Char(s, i), acc)

split_whitespace(s) == SplitWsFrom(s, 1, "", <<>>)

\* str::split(char): every piece between separators, empty pieces included.
RECURSIVE SplitCharFrom(_, _, _, _, _)
SplitCharFrom(s, sep, i, cur, acc) ==
    IF i > Len(s)
    THEN Append(acc, cur)
    ELSE IF Char(s, i) = sep
         THEN SplitCharFrom(s, sep, i + 1, "", Append(acc, cur))
         ELSE SplitCharFrom(s, sep, i + 1, cur \o Char(s, i), acc)

split(s, sep) == SplitCharFrom(s, sep, 1, "", <<>>)

\* str::contains(&str): pat occurs in s as a substring.
contains(s, pat) ==
    \E i \in 1..(Len(s) - Len(pat) + 1) : SubSeq(s, i, i + Len(pat) - 1) = pat

-----------------------------------------------------------------------------
(* usize and usize::from_str_radix(_, 16)                                  *)

\* usize is 64 bits wide: 16 base-16 digits.
UsizeHexDigits == 16

LowerDigits == "0123456789abcdef"

UpperDigits == "0123456789ABCDEF"

\* char::to_digit(16): the digit's value, or -1 for None.
to_digit(c) ==
    IF \E i \in 1..16 : Char(LowerDigits, i) = c
    THEN (CHOOSE i \in 1..16 : Char(LowerDigits, i) = c) - 1
    ELSE IF \E i \in 1..16 : Char(UpperDigits, i) = c
         THEN (CHOOSE i \in 1..16 : Char(UpperDigits, i) = c) - 1
         ELSE -1

\* result * 16 + d on the digit representation (no leading zeros).
MulAdd(acc, d) == IF acc = <<>> /\ d = 0 THEN <<>> ELSE Append(acc, d)

\* The digit loop: InvalidDigit on a character that is no digit, PosOverflow
\* when checked_mul/checked_add leave the 64 bits.
RECURSIVE ParseDigits(_, _, _)
ParseDigits(s, i, acc) ==
    IF i > Len(s)
    THEN Ok(acc)
    ELSE IF to_digit(Char(s, i)) = -1
         THEN Err
         ELSE IF Len(MulAdd(acc, to_digit(Char(s, i)))) > UsizeHexDigits
              THEN Err
              ELSE ParseDigits(s, i + 1, MulAdd(acc, to_digit(Char(s, i))))

\* usize::from_str_radix(src, 16): Empty on "", InvalidDigit on a lone sign,
\* one leading '+' is skipped; '-' is no sign for an unsigned type.
from_str_radix(src) ==
    IF src = ""
    THEN Err
    ELSE IF Len(src) = 1 /\ Char(src, 1) \in {"+", "-"}
         THEN Err
         ELSE IF Char(src, 1) = "+"
              THEN ParseDigits(src, 2, <<>>)
              ELSE ParseDigits(src, 1, <<>>)

\* a <= b on usize values.
RECURSIVE LexLe(_, _, _)
LexLe(a, b, i) ==
    IF i > Len(a)
    THEN TRUE
    ELSE IF a[i] # b[i] THEN a[i] < b[i] ELSE LexLe(a, b, i + 1)

Le(a, b) == Len(a) < Len(b) \/ (Len(a) = Len(b) /\ LexLe(a, b, 1))

\* Display of an i32 >= 0 (the "{}" of format!): its decimal digits.
RECURSIVE to_string(_)
to_string(n) ==
    IF n < 10
    THEN Char("0123456789", n + 1)
    ELSE to_string(n \div 10) \o Char("0123456789", (n % 10) + 1)

-----------------------------------------------------------------------------
(* parse_line                                                              *)

\* parse_line that takes the last field of the line for the path
parse_line_last_field(line) ==
    LET parts == split_whitespace(line) IN
    IF Len(parts) < 5
    THEN None
    ELSE LET range == split(parts[1], "-") IN
         IF Len(range) # 2
         THEN None
         ELSE LET start == from_str_radix(range[1])
                  end == from_str_radix(range[2])
              IN  IF ~start.ok \/ ~end.ok
                  THEN None
                  ELSE Some([start |-> start.val,
                             end |-> end.val,
                             permissions |-> parts[2],
                             file_path |-> IF Len(parts) >= 6
                                           THEN Some(parts[Len(parts)])
                                           ELSE None])

parse_line(line) ==
    LET parts == split_whitespace(line) IN
    IF Len(parts) < 5
    THEN None
    ELSE LET range == split(parts[1], "-") IN
         IF Len(range) # 2
         THEN None
         ELSE LET start == from_str_radix(range[1])
                  end == from_str_radix(range[2])
              IN  IF ~start.ok
                  THEN None
                  ELSE IF ~end.ok
                       THEN None
                       ELSE Some([start |-> start.val,
                                  end |-> end.val,
                                  permissions |-> parts[2],
                                  file_path |-> IF Len(parts) >= 6
                                                THEN Some(parts[6])
                                                ELSE None])

-----------------------------------------------------------------------------
(* determine_region_type                                                   *)

\* str::ends_with(&str)
ends_with(s, pat) ==
    Len(s) >= Len(pat) /\ SubSeq(s, Len(s) - Len(pat) + 1, Len(s)) = pat

\* determine_region_type with the permission arms before the stack and heap arms
determine_region_type_permissions_first(permissions, file_path) ==
    IF permissions = "r-xp" THEN "text (executable code)"
    ELSE IF permissions = "rw-p" /\ file_path.some /\ contains(file_path.val, ".so")
         THEN "data in shared library"
    ELSE IF permissions = "r--p" /\ file_path.some /\ contains(file_path.val, ".so")
         THEN "read-only data in shared library"
    ELSE IF permissions = "rw-p" THEN "data or BSS"
    ELSE IF file_path.some /\ contains(file_path.val, "[stack]") THEN "stack"
    ELSE IF file_path.some /\ contains(file_path.val, "[heap]") THEN "heap"
    ELSE "other"

\* determine_region_type with path.ends_with(".so") for path.contains(".so")
determine_region_type_ends_with(permissions, file_path) ==
    IF file_path.some /\ contains(file_path.val, "[stack]") THEN "stack"
    ELSE IF file_path.some /\ contains(file_path.val, "[heap]") THEN "heap"
    ELSE IF permissions = "r-xp" THEN "text (executable code)"
    ELSE IF permissions = "rw-p" /\ file_path.some /\ ends_with(file_path.val, ".so")
         THEN "data in shared library"
    ELSE IF permissions = "r--p" /\ file_path.some /\ ends_with(file_path.val, ".so")
         THEN "read-only data in shared library"
    ELSE IF permissions = "rw-p" THEN "data or BSS"
    ELSE "other"

determine_region_type(permissions, file_path) ==
    IF file_path.some /\ contains(file_path.val, "[stack]") THEN "stack"
    ELSE IF file_path.some /\ contains(file_path.val, "[heap]") THEN "heap"
    ELSE IF permissions = "r-xp" THEN "text (executable code)"
    ELSE IF permissions = "rw-p" /\ file_path.some /\ contains(file_path.val, ".so")
         THEN "data in shared library"
    ELSE IF permissions = "r--p" /\ file_path.some /\ contains(file_path.val, ".so")
         THEN "read-only data in shared library"
    ELSE IF permissions = "rw-p" THEN "data or BSS"
    ELSE "other"

-----------------------------------------------------------------------------
(* ptr_info                                                                *)

\* in_range with the end excluded (a half-open range)
in_range_half_open(addr, start, end) == Le(start, addr) /\ Le(addr, end) /\ addr # end

\* address >= start && address <= end
in_range(addr, start, end) == Le(start, addr) /\ Le(addr, end)

\* count_entry that inserts 1 and never increments
count_entry_insert_only(counts, file_path) ==
    [q \in DOMAIN counts \cup {file_path} |-> IF q = file_path THEN 1 ELSE counts[q]]

\* count_entry that increments an entry only when it is there already
count_entry_existing_only(counts, file_path) ==
    [q \in DOMAIN counts |-> IF q = file_path THEN counts[q] + 1 ELSE counts[q]]

\* *file_counts.entry(file_path_owned).or_insert(0) += 1
\* (an i32; the lines of one map are far fewer than 2^31)
count_entry(counts, file_path) ==
    [q \in DOMAIN counts \cup {file_path} |->
        IF q = file_path
        THEN (IF q \in DOMAIN counts THEN counts[q] ELSE 0) + 1
        ELSE counts[q]]

\* the body of `if let Some((_, _, _, Some(file_path))) = parse_line(&line)`
count_line(counts, line) ==
    LET r == parse_line(line) IN
    IF r.some /\ r.val.file_path.some
    THEN count_entry(counts, r.val.file_path.val)
    ELSE counts

\* file_counts.get(file_path).unwrap_or(&1)
get_or_1(counts, file_path) ==
    IF file_path \in DOMAIN counts THEN counts[file_path] ELSE 1

\* `output`: the associated file as it is printed
display_label(file_path_option, counts) ==
    IF file_path_option.some
    THEN LET count == get_or_1(counts, file_path_option.val) IN
         IF count > 1
         THEN file_path_option.val \o " [" \o to_string(count) \o "]"
         ELSE file_path_option.val
    ELSE "anonymous"

\* "The pointer is in the {} section, permissions: {}, associated file: {}"
RegionLine(r, counts) ==
    [found |-> TRUE,
     region |-> determine_region_type(r.permissions, r.file_path),
     permissions |-> r.permissions,
     output |-> display_label(r.file_path, counts)]

\* "The pointer address does not belong to any known section."
NotFoundLine == [found |-> FALSE]

\* line_matches that forgets the lower end of the range
line_matches_end_only(addr, line) ==
    LET r == parse_line(line) IN
    r.some /\ Le(addr, r.val.end)

\* whether the second loop stops at `line`
line_matches(addr, line) ==
    LET r == parse_line(line) IN
    r.some /\ in_range(addr, r.val.start, r.val.end)

\* The most lines /proc/self/maps holds in the model.
MaxLines == 3

Usize(hex) == from_str_radix(hex).val

QueryAddresses == {Usize(h) : h \in {"1000", "2000", "2800", "3000", "4000"}}

\* What reader.lines() can yield: map records that abut, overlap, share a
\* backing file, have no backing file or have the larger number first, lines
\* parse_line rejects, and a read error.
MapItems ==
    {Ok("1000-2000 r-xp 0 0 0 libfoo.so"),
     Ok("2000-3000 rw-p 0 0 0 libfoo.so"),
     Ok("2000-2fff r--p 0 0 0 libbar.so"),
     Ok("3000-1000 rw-p 0 0 0 libfoo.so"),
     Ok("2800-3800 rw-p 0 0 0"),
     Ok("g000-2000 rw-p 0 0 0 libfoo.so"),
     Ok("invalid format line"),
     Err}

Init ==
    /\ address \in QueryAddresses
    /\ file \in UNION {[1..n -> MapItems] : n \in 0..MaxLines}
    /\ pos = 0
    /\ file_counts = <<>>
    /\ lines = <<>>
    /\ idx = 0
    /\ pc = "open"
    /\ out = <<>>
    /\ ptokens = <<>>
    /\ pline = ""
    /\ pres = [returned |-> FALSE]
    /\ cperm = ""
    /\ cpath = None
    /\ ckind = [returned |-> FALSE]

\* File::open(maps_path) is Ok(file)
OpenOk ==
    /\ pc = "open"
    /\ pc' = "read"
    /\ UNCHANGED <<address, file, pos, file_counts, lines, idx, out>>
    /\ UNCHANGED <<parseVars, classifyVars>>

\* File::open(maps_path) is Err(e): a message on stderr, and return
OpenErr ==
    /\ pc = "open"
    /\ pc' = "failed"
    /\ UNCHANGED <<address, file, pos, file_counts, lines, idx, out>>
    /\ UNCHANGED <<parseVars, classifyVars>>

\* one iteration of `for line in reader.lines()`
ReadLine ==
    /\ pc = "read"
    /\ pos < Len(file)
    /\ LET item == file[pos + 1]
           line == IF item.ok THEN item.val ELSE ""
       IN  /\ lines' = Append(lines, line)
           /\ file_counts' = count_line(file_counts, line)
    /\ pos' = pos + 1
    /\ UNCHANGED <<address, file, idx, pc, out>>
    /\ UNCHANGED <<parseVars, classifyVars>>

\* reader.lines() is exhausted: the first loop ends, the second begins
ReadEnd ==
    /\ pc = "read"
    /\ pos = Len(file)
    /\ pc' = "scan"
    /\ idx' = 1
    /\ UNCHANGED <<address, file, pos, file_counts, lines, out>>
    /\ UNCHANGED <<parseVars, classifyVars>>

\* ScanLine that gives up at a line parse_line rejects
ScanLine_stop_at_rejected ==
    /\ pc = "scan"
    /\ idx <= Len(lines)
    /\ IF ~parse_line(lines[idx]).some
       THEN /\ out' = Append(out, NotFoundLine)
            /\ pc' = "done"
            /\ idx' = idx
       ELSE IF line_matches(address, lines[idx])
            THEN /\ out' = Append(out, RegionLine(parse_line(lines[idx]).val, file_counts))
                 /\ pc' = "done"
                 /\ idx' = idx
            ELSE /\ idx' = idx + 1
                 /\ UNCHANGED <<out, pc>>
    /\ UNCHANGED <<address, file, pos, file_counts, lines>>
    /\ UNCHANGED <<parseVars, classifyVars>>

\* one iteration of `for line in &lines`
ScanLine ==
    /\ pc = "scan"
    /\ idx <= Len(lines)
    /\ IF line_matches(address, lines[idx])
       THEN /\ out' = Append(out, RegionLine(parse_line(lines[idx]).val, file_counts))
            /\ pc' = "done"
            /\ idx' = idx
       ELSE /\ idx' = idx + 1
            /\ UNCHANGED <<out, pc>>
    /\ UNCHANGED <<address, file, pos, file_counts, lines>>
    /\ UNCHANGED <<parseVars, classifyVars>>

\* the second loop ends without a match
ScanEnd ==
    /\ pc = "scan"
    /\ idx > Len(lines)
    /\ out' = Append(out, NotFoundLine)
    /\ pc' = "done"
    /\ UNCHANGED <<address, file, pos, file_counts, lines, idx>>
    /\ UNCHANGED <<parseVars, classifyVars>>

Next == OpenOk \/ OpenErr \/ ReadLine \/ ReadEnd \/ ScanLine \/ ScanEnd

Spec == Init /\ [][Next]_vars

-----------------------------------------------------------------------------------------------------------------------------------------------------
(* Properties of ptr_info                                                  *)

Accepted(line) == parse_line(line).some

\* what parse_line returns for each line of ls
Parsed(ls) == [i \in 1..Len(ls) |-> parse_line(ls[i])]

\* the lines whose record contains addr, both ends included (R is Parsed(ls))
Containing(addr, R) ==
    {i \in DOMAIN R :
        R[i].some /\ Le(R[i].val.start, addr) /\ Le(addr, R[i].val.end)}

Least(S) == CHOOSE i \in S : \A j \in S : i <= j

\* how many accepted lines have the backing file_path
Multiplicity(R, file_path) ==
    Cardinality({i \in DOMAIN R : R[i].some /\ R[i].val.file_path = Some(file_path)})

LabelOf(R, i) ==
    LET q == R[i].val.file_path IN
    IF ~q.some
    THEN "anonymous"
    ELSE LET n == Multiplicity(R, q.val) IN
         IF n > 1 THEN q.val \o " [" \o ToString(n) \o "]" ELSE q.val

\* what resolving addr against the lines with records R is to print
Outcome(addr, R) ==
    LET hits == Containing(addr, R) IN
    IF hits = {}
    THEN <<[found |-> FALSE]>>
    ELSE LET i == Least(hits) IN
         <<[found |-> TRUE,
            region |-> determine_region_type(R[i].val.permissions, R[i].val.file_path),
            permissions |-> R[i].val.permissions,
            output |-> LabelOf(R, i)]>>

Found == pc = "done" /\ Len(out) = 1 /\ out[1].found

\* C1: the region reported is that of the first line, in the order of the
\* lines, whose parsed range has start <= address <= end, both ends included;
\* of two records that share a boundary address the earlier one is reported.
C1_FirstInclusiveMatch ==
    pc = "done" =>
        LET R == Parsed(lines)
            hits == Containing(address, R)
        IN  hits # {} =>
                /\ Found
                /\ idx = Least(hits)
                /\ out[1].permissions = R[idx].val.permissions
                /\ out[1].region =
                       determine_region_type(R[idx].val.permissions, R[idx].val.file_path)

C1_Witness ==
    /\ Found
    /\ LET R == Parsed(lines) IN
       /\ address = R[idx].val.end
       /\ \E j \in (idx + 1)..Len(lines) :
              j \in Containing(address, R) /\ address = R[j].val.start

\* C2: the outcome is not-found exactly when no parsed line has a range that
\* contains the address, and a not-found outcome carries no region kind, no
\* permissions and no label.
C2_NotFoundIffNoRange ==
    pc = "done" =>
        /\ Len(out) = 1
        /\ (~out[1].found) <=> (Containing(address, Parsed(lines)) = {})
        /\ (~out[1].found) => DOMAIN out[1] = {"found"}

C2_Witness ==
    /\ pc = "done"
    /\ out = <<[found |-> FALSE]>>
    /\ LET R == Parsed(lines) IN
       /\ \E i \in DOMAIN R : R[i].some /\ Le(R[i].val.start, R[i].val.end)
       /\ \E i \in DOMAIN R : R[i].some /\ ~Le(R[i].val.start, R[i].val.end)

\* C3: the label of a matched record with a backing is "<path> [<count>]" when
\* count > 1 and the path alone otherwise, count being the number of parsed
\* lines of the whole sequence (those after the match too) with that backing;
\* without a backing the label is "anonymous".
C3_LabelCountsAllLines ==
    Found => out[1].output = LabelOf(Parsed(lines), idx)

C3_Witness ==
    /\ Found
    /\ idx = 1
    /\ out[1].output = "libfoo.so [3]"
    /\ parse_line(lines[1]).val.file_path = Some("libfoo.so")

\* C9: lines that parse_line rejects are skipped in both loops: the outcome is
\* the outcome for the lines with the rejected ones removed, and neither loop
\* ends at one: every line is read, and a scan without a match has visited
\* every line.
C9_RejectedLinesSkipped ==
    pc = "done" =>
        /\ out = Outcome(address, Parsed(SelectSeq(lines, Accepted)))
        /\ Len(lines) = Len(file)
        /\ ~out[1].found => idx = Len(lines) + 1

C9_Witness ==
    /\ Found
    /\ \E j \in 1..(idx - 1) : ~Accepted(lines[j])
    /\ \E j \in (idx + 1)..Len(lines) : ~Accepted(lines[j])
    /\ out[1].output = "libfoo.so"

\* C10: when the second loop runs, every backing of a parsed line is in the
\* histogram with a count of at least 1, so the fallback count is never used,
\* and a printed multiplicity is a number >= 2.
C10_HistogramCoversBackings ==
    /\ pc \in {"scan", "done"} =>
           LET R == Parsed(lines) IN
           \A i \in DOMAIN R :
               (R[i].some /\ R[i].val.file_path.some) =>
                   /\ R[i].val.file_path.val \in DOMAIN file_counts
                   /\ file_counts[R[i].val.file_path.val] >= 1
    /\ Found =>
           LET q == parse_line(lines[idx]).val.file_path IN
           q.some =>
               \/ out[1].output = q.val
               \/ \E n \in 2..Len(lines) :
                      out[1].output = q.val \o " [" \o ToString(n) \o "]"

C10_Witness ==
    /\ pc = "scan"
    /\ idx <= Len(lines)
    /\ line_matches(address, lines[idx])
    /\ LET q == parse_line(lines[idx]).val.file_path IN
       q.some /\ file_counts[q.val] = 1

-----------------------------------------------------------------------------
(* Calls of parse_line on lines built from fields and white space.         *)

NotReturned == [returned |-> FALSE]

Returned(v) == [returned |-> TRUE, val |-> v]

\* The largest number of fields of a line given to parse_line.
MaxFields == 7

\* The halves of a first field: hexadecimal numerals in both cases, with
\* leading zeros, with a sign, of 16 and of 17 digits, and text that is none.
Halves ==
    {"", "0", "1f", "1F", "+1f", "+", "g0", "1000", "2000",
     "00400000", "0040c000",
     "ffffffffffffffff", "10000000000000000", "00000000000000001"}

RangeFields ==
    {a \o "-" \o b : a \in Halves, b \in Halves}
        \cup (Halves \ {""})
        \cup {"1000-" \o b \o "-" \o c : b \in {"", "2000"}, c \in {"", "3000"}}
        \cup {"invalid"}

PermissionFields == {"r-xp", "rw-p"}

\* offset, device and inode
MiddleFields == {<<"00000000", "fc:01", "123456">>, <<"0", "00:00", "0">>}

PathFields == {"/usr/bin/cat", "[stack]"}

\* field k (from 1) of a line with first field f0, permissions p, middle
\* fields m and path q; what follows the path on a line is more tokens.
FieldAt(k, f0, p, m, q) ==
    IF k = 1 THEN f0
    ELSE IF k = 2 THEN p
    ELSE IF k <= 5 THEN m[k - 2]
    ELSE IF k = 6 THEN q
    ELSE "(deleted)"

\* white space before the line, between fields and after the line
Spacings ==
    {[lead |-> "", sep |-> " ", trail |-> ""],
     [lead |-> "", sep |-> "\t", trail |-> ""],
     [lead |-> " ", sep |-> "  ", trail |-> "\t"],
     [lead |-> "\f", sep |-> VerticalTab, trail |-> "\r"]}

RECURSIVE JoinFrom(_, _, _)
JoinFrom(tokens, sep, i) ==
    IF i > Len(tokens)
    THEN ""
    ELSE IF i = Len(tokens)
         THEN tokens[i]
         ELSE tokens[i] \o sep \o JoinFrom(tokens, sep, i + 1)

Join(tokens, sp) == sp.lead \o JoinFrom(tokens, sp.sep, 1) \o sp.trail

InitParse ==
    /\ \E n \in 0..MaxFields, f0 \in RangeFields, p \in PermissionFields,
          m \in MiddleFields, q \in PathFields, sp \in Spacings :
          /\ ptokens = [k \in 1..n |-> FieldAt(k, f0, p, m, q)]
          /\ pline = Join(ptokens, sp)
    /\ pres = NotReturned
    /\ address = <<>>
    /\ file = <<>>
    /\ pos = 0
    /\ file_counts = <<>>
    /\ lines = <<>>
    /\ idx = 0
    /\ pc = "idle"
    /\ out = <<>>
    /\ cperm = ""
    /\ cpath = None
    /\ ckind = NotReturned

\* one call parse_line(line)
ParseCall ==
    /\ pres = NotReturned
    /\ pres' = Returned(parse_line(pline))
    /\ UNCHANGED <<ptokens, pline>>
    /\ UNCHANGED <<resolverVars, classifyVars>>

NextParse == ParseCall

SpecParse == InitParse /\ [][NextParse]_vars

-----------------------------------------------------------------------------
(* Calls of determine_region_type.                                         *)

Permissions == {"r-xp", "rw-p", "r--p", "---p", "rwxp", "rw-s", "r-xs"}

Paths ==
    {"[stack]", "[heap]", "[vdso]", "[stack:1234]",
     "libexample.so", "libreadonlydata.so", "/usr/lib/libc.so.6",
     "/usr/bin/cat", "/home/u/.songs/a.txt",
     "/tmp/[stack].so", "/tmp/[heap].so", "/tmp/[heap][stack]"}

InitClassify ==
    /\ cperm \in Permissions
    /\ cpath \in {None} \cup {Some(q) : q \in Paths}
    /\ ckind = NotReturned
    /\ address = <<>>
    /\ file = <<>>
    /\ pos = 0
    /\ file_counts = <<>>
    /\ lines = <<>>
    /\ idx = 0
    /\ pc = "idle"
    /\ out = <<>>
    /\ ptokens = <<>>
    /\ pline = ""
    /\ pres = NotReturned

\* one call determine_region_type(permissions, file_path)
ClassifyCall ==
    /\ ckind = NotReturned
    /\ ckind' = Returned(determine_region_type(cperm, cpath))
    /\ UNCHANGED <<cperm, cpath>>
    /\ UNCHANGED <<resolverVars, parseVars>>

NextClassify == ClassifyCall

SpecClassify == InitClassify /\ [][NextClassify]_vars

-----------------------------------------------------------------------------
(* Properties of parse_line                                                *)

\* s is a numeral in base 16: one or more of 0-9, a-f, A-F and nothing else
IsHex(s) == s # "" /\ \A i \in 1..Len(s) : to_digit(Char(s, i)) # -1

\* f has the form HEX-HEX: exactly one '-', a numeral on each side
IsHexHex(f) ==
    LET halves == split(f, "-") IN
    Len(halves) = 2 /\ IsHex(halves[1]) /\ IsHex(halves[2])

\* the value of the numeral s, as the digits of a usize are kept
RECURSIVE StripZeros(_)
StripZeros(ds) == IF ds # <<>> /\ Head(ds) = 0 THEN StripZeros(Tail(ds)) ELSE ds

HexValue(s) == StripZeros([i \in 1..Len(s) |-> to_digit(Char(s, i))])

FitsUsize(s) == Len(HexValue(s)) <= UsizeHexDigits

\* the record the fields of a line stand for
RecordOfFields(tokens) ==
    LET halves == split(tokens[1], "-") IN
    [start |-> HexValue(halves[1]),
     end |-> HexValue(halves[2]),
     permissions |-> tokens[2],
     file_path |-> IF Len(tokens) >= 6 THEN Some(tokens[6]) ELSE None]

\* C6: parse_line returns None for every line of fewer than 5 fields and for
\* every line whose first field is not of the form HEX-HEX.
C6_RejectsMalformed ==
    pres.returned =>
        ((Len(ptokens) < 5 \/ ~IsHexHex(ptokens[1])) => pres.val = None)

\* C7: for every line of at least 5 fields with a HEX-HEX first field,
\* parse_line returns the record of fields 0, 1 and 5: the values of the two
\* halves, the permissions as written, and the sixth field if there is one.
C7_RecordOfFields ==
    (pres.returned /\ Len(ptokens) >= 5 /\ IsHexHex(ptokens[1])) =>
        pres.val = Some(RecordOfFields(ptokens))

\* C7, amended: the same for the lines whose two halves each fit a usize (at
\* most 16 hexadecimal digits after the leading zeros).
C7_RecordOfFieldsThatFit ==
    (/\ pres.returned
     /\ Len(ptokens) >= 5
     /\ IsHexHex(ptokens[1])
     /\ \A h \in {1, 2} : FitsUsize(split(ptokens[1], "-")[h])) =>
        pres.val = Some(RecordOfFields(ptokens))

C7_Witness ==
    /\ pres.returned
    /\ ptokens = <<"00400000-0040c000", "r-xp", "00000000", "fc:01", "123456",
                   "/usr/bin/cat", "(deleted)">>
    /\ pline = " 00400000-0040c000  r-xp  00000000  fc:01  123456  /usr/bin/cat  (deleted)\t"
    /\ pres.val = Some([start |-> <<4, 0, 0, 0, 0, 0>>,
                        end |-> <<4, 0, 12, 0, 0, 0>>,
                        permissions |-> "r-xp",
                        file_path |-> Some("/usr/bin/cat")])

\* C8: every record parse_line returns has start <= end.
C8_StartLeEnd ==
    (pres.returned /\ pres.val.some) => Le(pres.val.val.start, pres.val.val.end)

-----------------------------------------------------------------------------
(* Properties of determine_region_type                                     *)

NeitherStackNorHeap ==
    ~(cpath.some /\ (contains(cpath.val, "[stack]") \/ contains(cpath.val, "[heap]")))

\* C4: whatever the permissions, a backing that contains "[stack]" is
\* classified stack, and one that contains "[heap]" and not "[stack]" is
\* classified heap, also when a later arm matches the permissions.
C4_StackHeapFirst ==
    (ckind.returned /\ cpath.some) =>
        /\ contains(cpath.val, "[stack]") => ckind.val = "stack"
        /\ (contains(cpath.val, "[heap]") /\ ~contains(cpath.val, "[stack]")) =>
               ckind.val = "heap"

C4_Witness ==
    /\ ckind.returned
    /\ cperm = "rw-p"
    /\ cpath = Some("/tmp/[heap].so")
    /\ ckind.val = "heap"

\* the shared-library arms, with SharedLib(path) telling a shared library
SharedLibraryArms(SharedLib(_)) ==
    (ckind.returned /\ NeitherStackNorHeap) =>
        /\ ckind.val = "data in shared library"
               <=> (cperm = "rw-p" /\ cpath.some /\ SharedLib(cpath.val))
        /\ ckind.val = "read-only data in shared library"
               <=> (cperm = "r--p" /\ cpath.some /\ SharedLib(cpath.val))
        /\ (cperm = "rw-p" /\ ~(cpath.some /\ SharedLib(cpath.val))) =>
               ckind.val = "data or BSS"
        /\ (cperm = "r--p" /\ ~(cpath.some /\ SharedLib(cpath.val))) =>
               ckind.val = "other"

EndsWithSo(path) == ends_with(path, ".so")

ContainsSo(path) == contains(path, ".so")

\* C5: a record that is neither stack nor heap is shared-library data exactly
\* when its permissions are "rw-p" and its backing ends with ".so", read-only
\* shared-library data exactly when they are "r--p" and it ends with ".so";
\* "rw-p" without such a backing is data or BSS, "r--p" without it is other.
C5_SharedLibraryBySuffix == SharedLibraryArms(EndsWithSo)

\* C5, amended: the same with a backing that contains ".so" anywhere.
C5_SharedLibraryBySubstring == SharedLibraryArms(ContainsSo)

C5_Witness ==
    /\ ckind.returned
    /\ cperm = "rw-p"
    /\ cpath = Some("/usr/lib/libc.so.6")
    /\ ckind.val = "data in shared library"

====
